---- MODULE Spec2Model ----
(***************************************************************************)
(* Highlight Date: a VS Code extension that highlights yyyy-MM-dd dates.   *)
(*                                                                         *)
(* The repository holds two variants of src/extension.ts:                  *)
(*   "linear"    src/src/extension.ts   calendar days, \b...\b pattern,    *)
(*               one style per day distance;                               *)
(*   "fibonacci" src/unnamed/part_000   business days, whitespace          *)
(*               lookaround pattern, date-fns validation, Fibonacci        *)
(*               buckets.                                                  *)
(* Both share the scheduler (triggerUpdateDecorations), the style registry *)
(* (futureDecorationTypes) and the lifecycle (activate / deactivate).      *)
(*                                                                         *)
(* A document text is a sequence of one-character strings; offsets are     *)
(* 0-based as in JavaScript.  Instants are counted in hours since the      *)
(* epoch, days in days since 1970-01-01.                                   *)
(***************************************************************************)
EXTENDS Integers, Sequences, FiniteSets, TLC

VARIABLES
    variant,                \* which extension.ts is loaded
    tz,                     \* the machine's UTC offset, in hours
    today,                  \* the local calendar day of the host clock
    phase,                  \* "loaded", "active", "deactivated", "disposed"
    text,                   \* text[e]: the text of the document shown by editor e
    windowEditor,           \* vscode.window.activeTextEditor
    activeEditor,           \* activate's local `activeEditor`
    timeout,                \* activate's local `timeout` (0 stands for undefined)
    timers,                 \* the host's pending setTimeout timers
    created,                \* created[h]: the category handle h was created for
    futureDecorationTypes,  \* the style registry: category -> handle
    subscriptions,          \* context.subscriptions
    disposeCount,           \* disposeCount[h]: dispose() calls received by handle h
    shown,                  \* shown[e][h]: the ranges editor e renders with handle h
    last,                   \* what the last step did (observation only)
    burst,                  \* throttled requests since the timer last fired or was
                            \* cancelled (observation only)
    probe                   \* the last call of a pure function: its name, its
                            \* arguments and what it returned

vars == <<variant, tz, today, phase, text, windowEditor, activeEditor, timeout,
          timers, created, futureDecorationTypes, subscriptions, disposeCount,
          shown, last, burst, probe>>

----------------------------------------------------------------------------
(* Bounds of the model *)

\* chunks (a date token or one separator character) per generated text
MaxChunks == 3
\* throttled requests in one burst
MaxBurst == 2
\* days the host clock advances during a behaviour
MaxDays == 1
\* timers the host can hold at once
MaxTimers == 2

----------------------------------------------------------------------------
(* Calendar arithmetic: what Date and date-fns compute *)

IsLeapYear(y) == (y % 4 = 0 /\ y % 100 # 0) \/ y % 400 = 0

DaysInMonth(y, m) ==
    IF m = 2 THEN (IF IsLeapYear(y) THEN 29 ELSE 28)
    ELSE IF m \in {4, 6, 9, 11} THEN 30 ELSE 31

\* Days since 1970-01-01 of the civil date y-m-d; linear in d, so a day past
\* the end of the month rolls over into the next month as Date.UTC does.
DaysFromCivil(y, m, d) ==
    LET yy  == IF m <= 2 THEN y - 1 ELSE y
        era == yy \div 400
        yoe == yy - era * 400
        mp  == IF m > 2 THEN m - 3 ELSE m + 9
        doy == (153 * mp + 2) \div 5 + d - 1
        doe == yoe * 365 + yoe \div 4 - yoe \div 100 + doy
    IN  era * 146097 + doe - 719468

\* 0 = Sunday ... 6 = Saturday
DayOfWeek(day) == (day + 4) % 7

\* date-fns isWeekend
isWeekend(day) == DayOfWeek(day) \in {0, 6}

\* Math.ceil(a / b) for b > 0
CeilDiv(a, b) == -((-a) \div b)

Max(a, b) == IF a > b THEN a ELSE b
Min(a, b) == IF a < b THEN a ELSE b

HoursPerDay == 24

\* the key under which a JavaScript Map files NaN
NaN == 1000000

----------------------------------------------------------------------------
(* Text: characters, offsets, positions *)

Digits == {"0", "1", "2", "3", "4", "5", "6", "7", "8", "9"}

DigitValue(c) ==
    CASE c = "0" -> 0 [] c = "1" -> 1 [] c = "2" -> 2 [] c = "3" -> 3
      [] c = "4" -> 4 [] c = "5" -> 5 [] c = "6" -> 6 [] c = "7" -> 7
      [] c = "8" -> 8 [] c = "9" -> 9

DigitChar(n) ==
    CASE n = 0 -> "0" [] n = 1 -> "1" [] n = 2 -> "2" [] n = 3 -> "3"
      [] n = 4 -> "4" [] n = 5 -> "5" [] n = 6 -> "6" [] n = 7 -> "7"
      [] n = 8 -> "8" [] n = 9 -> "9"

\* \d, \w and \s of the regular expressions; "x" stands for any letter
IsDigit(c) == c \in Digits
IsWordChar(c) == c \in Digits \cup {"x", "_"}
IsWhitespace(c) == c \in {" ", "\n"}

\* the character at 0-based offset i
CharAt(t, i) == t[i + 1]

\* vscode TextDocument.positionAt: the offset is clamped to the text, then
\* converted to a (line, character) position
PositionAt(t, offset) ==
    LET o  == IF offset < 0 THEN 0 ELSE IF offset > Len(t) THEN Len(t) ELSE offset
        nl == {k \in 0 .. (o - 1) : CharAt(t, k) = "\n"}
        lineStart == IF nl = {} THEN 0
                     ELSE (CHOOSE k \in nl : \A j \in nl : j <= k) + 1
    IN  [line |-> Cardinality(nl), character |-> o - lineStart]

\* vscode Position.isBeforeOrEqual
PosLeq(p, q) == p.line < q.line \/ (p.line = q.line /\ p.character <= q.character)

\* new vscode.Range(startPos, endPos)
Range(startPos, endPos) == [start |-> startPos, end |-> endPos]

----------------------------------------------------------------------------
(* The date pattern and the scan loop *)

TokenLength == 10

\* \d{4}-\d{2}-\d{2} at offset i
ShapeAt(t, i) ==
    /\ i >= 0
    /\ i + TokenLength <= Len(t)
    /\ \A k \in {0, 1, 2, 3, 5, 6, 8, 9} : IsDigit(CharAt(t, i + k))
    /\ CharAt(t, i + 4) = "-"
    /\ CharAt(t, i + 7) = "-"

\* /\b\d{4}-\d{2}-\d{2}\b/ : no word character next to the token
WordBoundaryMatchAt(t, i) ==
    /\ ShapeAt(t, i)
    /\ (i = 0 \/ ~IsWordChar(CharAt(t, i - 1)))
    /\ (i + TokenLength = Len(t) \/ ~IsWordChar(CharAt(t, i + TokenLength)))

\* /(?<=\s|^)\d{4}-\d{2}-\d{2}(?=\s|$)/ : whitespace or a text end on both sides
WhitespaceMatchAt(t, i) ==
    /\ ShapeAt(t, i)
    /\ (i = 0 \/ IsWhitespace(CharAt(t, i - 1)))
    /\ (i + TokenLength = Len(t) \/ IsWhitespace(CharAt(t, i + TokenLength)))

MatchAt(v, t, i) ==
    IF v = "linear" THEN WordBoundaryMatchAt(t, i) ELSE WhitespaceMatchAt(t, i)

\* while ((match = dateRegex.exec(text))): the match indices, left to right;
\* after a match the search resumes at its end (lastIndex)
RECURSIVE ScanFrom(_, _, _)
ScanFrom(v, t, i) ==
    IF i + TokenLength > Len(t) THEN << >>
    ELSE IF MatchAt(v, t, i) THEN <<i>> \o ScanFrom(v, t, i + TokenLength)
    ELSE ScanFrom(v, t, i + 1)

Scan(v, t) == ScanFrom(v, t, 0)

\* the numeric fields of the token at offset i
YearAt(t, i) ==
    1000 * DigitValue(CharAt(t, i)) + 100 * DigitValue(CharAt(t, i + 1))
    + 10 * DigitValue(CharAt(t, i + 2)) + DigitValue(CharAt(t, i + 3))
MonthAt(t, i) == 10 * DigitValue(CharAt(t, i + 5)) + DigitValue(CharAt(t, i + 6))
DayAt(t, i) == 10 * DigitValue(CharAt(t, i + 8)) + DigitValue(CharAt(t, i + 9))

\* a real calendar date
IsCalendarDate(y, m, d) ==
    y > 0 /\ m \in 1 .. 12 /\ d \in 1 .. DaysInMonth(y, m)

\* isValid(parse(dateStr, 'yyyy-MM-dd', new Date()))
isValidDate(t, i) == IsCalendarDate(YearAt(t, i), MonthAt(t, i), DayAt(t, i))

\* new Date(dateStr).getTime() in hours: UTC midnight of the date; the engine
\* accepts any month 1..12 and day 1..31 (a day past the month's end rolls
\* over) and gives NaN for anything else
DateTime(t, i) ==
    LET y == YearAt(t, i)  m == MonthAt(t, i)  d == DayAt(t, i)
    IN  IF m \in 1 .. 12 /\ d \in 1 .. 31
        THEN DaysFromCivil(y, m, d) * HoursPerDay
        ELSE NaN

\* today.setHours(0, 0, 0, 0); today.getTime() in hours: local midnight
TodayTime(day, offset) == day * HoursPerDay - offset

\* date.setHours(0, 0, 0, 0): the local day that holds the instant
LocalDay(time, offset) == (time + offset) \div HoursPerDay

----------------------------------------------------------------------------
(* Distance and category *)

FIBONACCI_BOUNDARIES == <<1, 2, 3, 5, 8, 13, 21, 34, 55, 89>>
MAX_FIBONACCI_NUMBER == FIBONACCI_BOUNDARIES[Len(FIBONACCI_BOUNDARIES)]

\* a find that walks the boundaries from the first one up
FindAscending(diffDays, k) ==
    IF k = 0 \/ diffDays < FIBONACCI_BOUNDARIES[1] THEN 0
    ELSE FIBONACCI_BOUNDARIES[1]

\* [...FIBONACCI_BOUNDARIES].reverse().find(boundary => diffDays >= boundary):
\* walks the boundaries from the last one down; 0 stands for undefined
RECURSIVE FindDescending(_, _)
FindDescending(diffDays, k) ==
    IF k = 0 THEN 0
    ELSE IF diffDays >= FIBONACCI_BOUNDARIES[k] THEN FIBONACCI_BOUNDARIES[k]
    ELSE FindDescending(diffDays, k - 1)

getFibonacciCategory(diffDays) ==
    IF diffDays <= 0 THEN 0
    ELSE IF diffDays > MAX_FIBONACCI_NUMBER THEN MAX_FIBONACCI_NUMBER
    ELSE LET category == FindDescending(diffDays, Len(FIBONACCI_BOUNDARIES))
         IN  IF category = 0 THEN 1 ELSE category

\* eachDayOfInterval({start, end}).filter(day => !isWeekend(day)).length
calculateBusinessDays(startDate, endDate) ==
    IF startDate = endDate THEN 0
    ELSE Cardinality({day \in startDate .. endDate : ~isWeekend(day)})

\* linear variant: Math.ceil((date.getTime() - today.getTime()) / 1 day)
LinearDiffDays(t, i, day, offset) ==
    IF DateTime(t, i) = NaN THEN NaN
    ELSE CeilDiv(DateTime(t, i) - TodayTime(day, offset), HoursPerDay)

\* fibonacci variant: the signed business-day distance
SignedDiffDays(t, i, day, offset) ==
    LET date == LocalDay(DateTime(t, i), offset)
        start == IF date < day THEN date ELSE day
        end == IF date < day THEN day ELSE date
        diffDays == calculateBusinessDays(start, end)
    IN  IF date < day THEN -diffDays ELSE diffDays

\* the key under which the match at offset i is filed in decorationsMap
CategoryOf(v, t, i, day, offset) ==
    IF v = "linear" THEN LinearDiffDays(t, i, day, offset)
    ELSE getFibonacciCategory(SignedDiffDays(t, i, day, offset))

\* the match is dropped by `continue`
Skipped(v, t, i) == v = "fibonacci" /\ ~isValidDate(t, i)

\* a range that leaves out the character before the token
MatchRangeNoLead(v, t, i) ==
    IF v = "linear"
    THEN Range(PositionAt(t, i), PositionAt(t, i + TokenLength))
    ELSE Range(PositionAt(t, i), PositionAt(t, i + TokenLength + 1))

\* the range given to the match at offset i
MatchRange(v, t, i) ==
    IF v = "linear"
    THEN Range(PositionAt(t, i), PositionAt(t, i + TokenLength))
    ELSE Range(PositionAt(t, i - 1), PositionAt(t, i + TokenLength + 1))

\* decorationsMap as a sequence of entries in insertion order
HasKey(map, key) == \E k \in 1 .. Len(map) : map[k].key = key

MapPush(map, key, decoration) ==
    IF HasKey(map, key)
    THEN [k \in 1 .. Len(map) |->
            IF map[k].key = key
            THEN [map[k] EXCEPT !.decorations = Append(@, decoration)]
            ELSE map[k]]
    ELSE Append(map, [key |-> key, decorations |-> <<decoration>>])

\* the body of the scan loop, over the matches from the k-th on
RECURSIVE Classify(_, _, _, _, _, _, _)
Classify(v, t, day, offset, matches, k, map) ==
    IF k > Len(matches) THEN map
    ELSE LET i == matches[k] IN
         IF Skipped(v, t, i)
         THEN Classify(v, t, day, offset, matches, k + 1, map)
         ELSE Classify(v, t, day, offset, matches, k + 1,
                       MapPush(map, CategoryOf(v, t, i, day, offset),
                               MatchRange(v, t, i)))

\* the Range Group of one update cycle
DecorationsMap(v, t, day, offset) ==
    Classify(v, t, day, offset, Scan(v, t), 1, << >>)

----------------------------------------------------------------------------
(* Editors, documents and style handles *)

Editors == {"e1", "e2"}
NoEditor == "none"

\* the handle created when the module is loaded
pastDateDecorationType == 1

\* the handles held by a registry, and the empty registry
RegistryHandles(registry) == {registry[c] : c \in DOMAIN registry}
EmptyMap == << >>

\* a handle on which dispose() has been called
Disposed(counts, h) == counts[h] > 0

\* editor.setDecorations(handle, ranges) on the rendering of one editor:
\* replaces what the handle shows there; a handle shows nothing once released
SetDecorations(rendering, counts, h, ranges) ==
    IF Disposed(counts, h) THEN rendering
    ELSE IF ranges = << >>
    THEN [k \in DOMAIN rendering \ {h} |-> rendering[k]]
    ELSE [k \in DOMAIN rendering \cup {h} |-> IF k = h THEN ranges ELSE rendering[k]]

\* what editor e renders with handle h
ShownOf(rendering, h) == IF h \in DOMAIN rendering THEN rendering[h] ELSE << >>

\* decorationType.dispose(): the host drops the style from every editor
DropHandles(allShown, hs) ==
    [e \in Editors |-> [k \in DOMAIN allShown[e] \ hs |-> allShown[e][k]]]

\* The part of the state one updateDecorations call works on:
\*   created, counts     every handle ever created and its dispose() count
\*   registry            futureDecorationTypes
\*   subs                context.subscriptions
\*   rendering           the active editor's rendering
\*   calls               the setDecorations calls made so far, in order
\*   stale               a released handle was passed to setDecorations
Call(h, ranges) == [handle |-> h, ranges |-> ranges]

DoSetDecorations(r, h, ranges) ==
    [r EXCEPT !.rendering = SetDecorations(r.rendering, r.counts, h, ranges),
              !.calls = Append(r.calls, Call(h, ranges)),
              !.stale = r.stale \/ Disposed(r.counts, h)]

\* vscode.window.createTextEditorDecorationType, futureDecorationTypes.set and
\* context.subscriptions.push for a category with no handle yet
CreateDecorationType(r, category) ==
    LET h == Len(r.created) + 1 IN
    [r EXCEPT !.created = Append(r.created, category),
              !.counts = Append(r.counts, 0),
              !.registry = [c \in DOMAIN r.registry \cup {category} |->
                              IF c = category THEN h ELSE r.registry[c]],
              !.subs = Append(r.subs, [kind |-> "decoration", handle |-> h])]

\* a getOrCreateDecorationType without its futureDecorationTypes.has test
GetOrCreateAlways(r, category) ==
    IF category # NaN /\ category <= 0 THEN r
    ELSE CreateDecorationType(r, category)

\* getOrCreateDecorationType: the registry after the call
GetOrCreateState(r, category) ==
    IF category # NaN /\ category <= 0 THEN r
    ELSE IF category \notin DOMAIN r.registry THEN CreateDecorationType(r, category)
    ELSE r

\* getOrCreateDecorationType: the handle returned
GetOrCreateHandle(r, category) ==
    IF category # NaN /\ category <= 0 THEN pastDateDecorationType
    ELSE GetOrCreateState(r, category).registry[category]

\* futureDecorationTypes.forEach(decType => editor.setDecorations(decType, [])),
\* in insertion order, which is the order of creation
RECURSIVE ClearFuture(_, _)
ClearFuture(r, h) ==
    IF h > Len(r.created) THEN r
    ELSE IF h \in RegistryHandles(r.registry)
    THEN ClearFuture(DoSetDecorations(r, h, << >>), h + 1)
    ELSE ClearFuture(r, h + 1)

ClearAll(r) == ClearFuture(DoSetDecorations(r, pastDateDecorationType, << >>), 1)

\* decorationsMap.forEach((decorations, category) => ...), from entry k on
RECURSIVE ApplyFrom(_, _, _)
ApplyFrom(r, map, k) ==
    IF k > Len(map) THEN r
    ELSE LET r1 == GetOrCreateState(r, map[k].key)
             h == GetOrCreateHandle(r, map[k].key)
         IN  ApplyFrom(DoSetDecorations(r1, h, map[k].decorations), map, k + 1)

\* updateDecorations past its `if (!activeEditor) return`
RunPipeline(r, map) == ApplyFrom(ClearAll(r), map, 1)

----------------------------------------------------------------------------
(* Inputs *)

\* yyyy-MM-dd as characters
Token(y, m, d) ==
    <<DigitChar(y \div 1000), DigitChar((y \div 100) % 10),
      DigitChar((y \div 10) % 10), DigitChar(y % 10), "-",
      DigitChar(m \div 10), DigitChar(m % 10), "-",
      DigitChar(d \div 10), DigitChar(d % 10)>>

\* the host clock at the start of a behaviour: Friday 2024-06-14
StartDay == DaysFromCivil(2024, 6, 14)

\* UTC offsets of the machine: west and east of Greenwich (an offset of 0
\* classifies as -5 does in the linear variant and as 9 does in the other)
TzOffsets == {-5, 9}

Variants == {"linear", "fibonacci"}

\* the texts the documents of the lifecycle specification take
DocTexts ==
    { << >>,
      Token(2024, 6, 17),
      Token(2024, 6, 12) \o <<"\n">> \o Token(2024, 6, 10) \o <<" ">>
        \o Token(2024, 6, 19) }

\* the texts of the scan specification: up to MaxChunks chunks, each a date
\* token (a past and a future date, a day past the end of its month, a month
\* 13, a 29 February of a common year) or one separator character
ScanTokens ==
    { Token(2024, 6, 12), Token(2024, 6, 17), Token(2024, 2, 30),
      Token(2024, 13, 1), Token(2023, 2, 29) }

Separators == {" ", "\n", "x", "-"}

Chunks == ScanTokens \cup {<<c>> : c \in Separators}

RECURSIVE ChunkTexts(_)
ChunkTexts(n) ==
    IF n = 0 THEN {<< >>}
    ELSE LET shorter == ChunkTexts(n - 1)
         IN  shorter \cup {t \o c : t \in shorter, c \in Chunks}

ScanTexts == ChunkTexts(MaxChunks)

----------------------------------------------------------------------------
(* State *)

\* editor: the editor decorated; map: the Range Group; calls: the setDecorations
\* calls in order; known: the handles known when the run started; handlesBefore:
\* how many handles existed then; stale: a released handle was used; repeat:
\* the step before was a full run on the same editor
NoRun == [editor |-> NoEditor, map |-> << >>, calls |-> << >>, known |-> {},
          handlesBefore |-> 0, stale |-> FALSE, repeat |-> FALSE]

\* op: the operation; ran: "none", "noop" (updateDecorations returned at once)
\* or "full"; cancelled: a pending timer was cleared; armed: a timer was set;
\* run: the Range Group and the setDecorations calls of a full run
Step(op, ran, cancelled, armed, run) ==
    [op |-> op, ran |-> ran, cancelled |-> cancelled, armed |-> armed, run |-> run]

\* no pure function has been called yet
NoProbe == [fn |-> "none", args |-> << >>, result |-> << >>]

\* the module has been loaded (pastDateDecorationType exists, the registry is
\* empty) and activate has not been called yet
Loaded(texts, editors) ==
    /\ variant \in Variants
    /\ tz \in TzOffsets
    /\ today = StartDay
    /\ phase = "loaded"
    /\ text \in texts
    /\ windowEditor \in editors
    /\ activeEditor = NoEditor
    /\ timeout = 0
    /\ timers = {}
    /\ created = <<0>>
    /\ futureDecorationTypes = EmptyMap
    /\ subscriptions = << >>
    /\ disposeCount = <<0>>
    /\ shown = [e \in Editors |-> EmptyMap]
    /\ last = Step("load", "none", FALSE, FALSE, NoRun)
    /\ burst = 0
    /\ probe = NoProbe

Init == Loaded([Editors -> DocTexts], Editors \cup {NoEditor})

\* the event listeners and the command are registered; the host disposes
\* context.subscriptions in the turn in which it calls deactivate()
Listening == phase = "active"

----------------------------------------------------------------------------
(* updateDecorations and triggerUpdateDecorations *)

\* what updateDecorations finds when it starts
PipelineState(ed, subs) ==
    [created |-> created, counts |-> disposeCount,
     registry |-> futureDecorationTypes, subs |-> subs,
     rendering |-> shown[ed], calls |-> << >>, stale |-> FALSE]

\* updateDecorations() with `activeEditor` = ed and context.subscriptions = subs
UpdateDecorations(op, ed, subs, cancelled) ==
    IF ed = NoEditor
    THEN /\ subscriptions' = subs
         /\ last' = Step(op, "noop", cancelled, FALSE, NoRun)
         /\ UNCHANGED <<created, futureDecorationTypes, disposeCount, shown>>
    ELSE \E map \in {DecorationsMap(variant, text[ed], today, tz)} :
         \E r \in {RunPipeline(PipelineState(ed, subs), map)} :
             /\ created' = r.created
             /\ disposeCount' = r.counts
             /\ futureDecorationTypes' = r.registry
             /\ subscriptions' = r.subs
             /\ shown' = [shown EXCEPT ![ed] = r.rendering]
             /\ last' = Step(op, "full", cancelled, FALSE,
                             [editor |-> ed, map |-> map, calls |-> r.calls,
                              known |-> {pastDateDecorationType}
                                        \cup RegistryHandles(futureDecorationTypes),
                              handlesBefore |-> Len(created),
                              stale |-> r.stale,
                              repeat |-> last.ran = "full" /\ last.run.editor = ed])

\* a triggerUpdateDecorations that forgets clearTimeout
TimersNeverCleared == timers

\* if (timeout) { clearTimeout(timeout); timeout = undefined; }
TimersAfterClear == IF timeout # 0 THEN timers \ {timeout} ELSE timers

\* setTimeout returns a timer that is none of the pending ones
NewTimer(pending) == CHOOSE id \in 1 .. MaxTimers :
                        id \notin pending /\ \A j \in 1 .. (id - 1) : j \in pending

\* triggerUpdateDecorations(throttle) with `activeEditor` = ed
TriggerUpdateDecorations(op, throttle, ed, subs) ==
    LET pending == TimersAfterClear
        cancelled == pending # timers
    IN  IF throttle
        THEN /\ burst < MaxBurst
             /\ Cardinality(pending) < MaxTimers
             /\ timeout' = NewTimer(pending)
             /\ timers' = pending \cup {NewTimer(pending)}
             /\ burst' = IF timeout \in timers THEN burst + 1 ELSE 1
             /\ subscriptions' = subs
             /\ last' = Step(op, "none", cancelled, TRUE, NoRun)
             /\ UNCHANGED <<created, futureDecorationTypes, disposeCount, shown>>
        ELSE /\ timeout' = 0
             /\ timers' = pending
             /\ burst' = IF cancelled THEN 0 ELSE burst
             /\ UpdateDecorations(op, ed, subs, cancelled)

----------------------------------------------------------------------------
(* Operations *)

\* activate(context)
Activate ==
    /\ phase = "loaded"
    /\ phase' = "active"
    /\ activeEditor' = windowEditor
    /\ LET subs == Append(subscriptions, [kind |-> "command", handle |-> 0]) IN
       IF windowEditor # NoEditor
       THEN /\ TriggerUpdateDecorations("activate", FALSE, windowEditor, subs)
       ELSE /\ subscriptions' = subs
            /\ last' = Step("activate", "none", FALSE, FALSE, NoRun)
            /\ UNCHANGED <<timeout, timers, burst, created, futureDecorationTypes,
                           disposeCount, shown>>
    /\ UNCHANGED <<probe, variant, tz, today, text, windowEditor>>

\* a handler that calls triggerUpdateDecorations(false) even without an editor
ChangeActiveEditorUnguarded(e) ==
    /\ Listening
    /\ e # windowEditor
    /\ windowEditor' = e
    /\ activeEditor' = e
    /\ TriggerUpdateDecorations("editor", FALSE, e, subscriptions)
    /\ UNCHANGED <<probe, variant, tz, today, phase, text>>

\* the user switches to editor e (or to none); onDidChangeActiveTextEditor
ChangeActiveEditor(e) ==
    /\ Listening
    /\ e # windowEditor
    /\ windowEditor' = e
    /\ activeEditor' = e
    /\ IF e # NoEditor
       THEN TriggerUpdateDecorations("editor", FALSE, e, subscriptions)
       ELSE /\ last' = Step("editor", "none", FALSE, FALSE, NoRun)
            /\ UNCHANGED <<timeout, timers, burst, created, futureDecorationTypes,
                           subscriptions, disposeCount, shown>>
    /\ UNCHANGED <<probe, variant, tz, today, phase, text>>

\* the document of editor e changes to t; onDidChangeTextDocument
ChangeText(e, t) ==
    /\ Listening
    /\ t # text[e]
    /\ text' = [text EXCEPT ![e] = t]
    /\ IF activeEditor # NoEditor /\ e = activeEditor
       THEN TriggerUpdateDecorations("text", TRUE, activeEditor, subscriptions)
       ELSE /\ last' = Step("text", "none", FALSE, FALSE, NoRun)
            /\ UNCHANGED <<timeout, timers, burst, created, futureDecorationTypes,
                           subscriptions, disposeCount, shown>>
    /\ UNCHANGED <<probe, variant, tz, today, phase, windowEditor, activeEditor>>

\* a pending timer fires: setTimeout's callback updateDecorations runs; the
\* handle in `timeout` is left as it is
TimerFires(id) ==
    /\ id \in timers
    /\ phase # "deactivated"
    /\ timers' = timers \ {id}
    /\ burst' = IF id = timeout THEN 0 ELSE burst
    /\ UpdateDecorations("timer", activeEditor, subscriptions, FALSE)
    /\ UNCHANGED <<probe, variant, tz, today, phase, text, windowEditor, activeEditor,
                   timeout>>

\* the command 'highlight-date.refreshHighlights'
RefreshCommand ==
    /\ Listening
    /\ IF windowEditor # NoEditor
       THEN UpdateDecorations("refresh", activeEditor, subscriptions, FALSE)
       ELSE /\ last' = Step("refresh", "none", FALSE, FALSE, NoRun)
            /\ UNCHANGED <<created, futureDecorationTypes, subscriptions,
                           disposeCount, shown>>
    /\ UNCHANGED <<probe, variant, tz, today, phase, text, windowEditor, activeEditor,
                   timeout, timers, burst>>

\* dispose() on each handle of hs
DisposeAll(counts, hs) ==
    [h \in 1 .. Len(counts) |-> IF h \in hs THEN counts[h] + 1 ELSE counts[h]]

\* deactivate()
Deactivate ==
    /\ phase = "active"
    /\ phase' = "deactivated"
    /\ LET hs == {pastDateDecorationType} \cup RegistryHandles(futureDecorationTypes)
       IN  /\ disposeCount' = DisposeAll(disposeCount, hs)
           /\ shown' = DropHandles(shown, hs)
    /\ futureDecorationTypes' = EmptyMap
    /\ last' = Step("deactivate", "none", FALSE, FALSE, NoRun)
    /\ UNCHANGED <<probe, variant, tz, today, text, windowEditor, activeEditor, timeout,
                   timers, created, subscriptions, burst>>

\* the handles pushed to context.subscriptions
SubscribedHandles ==
    {subscriptions[k].handle :
        k \in {j \in 1 .. Len(subscriptions) : subscriptions[j].kind = "decoration"}}

\* after deactivate() the host disposes every entry of context.subscriptions:
\* the command, the two listeners and the decoration types pushed to it
DisposeSubscriptions ==
    /\ phase = "deactivated"
    /\ phase' = "disposed"
    /\ disposeCount' = DisposeAll(disposeCount, SubscribedHandles)
    /\ shown' = DropHandles(shown, SubscribedHandles)
    /\ last' = Step("dispose", "none", FALSE, FALSE, NoRun)
    /\ UNCHANGED <<probe, variant, tz, today, text, windowEditor, activeEditor, timeout,
                   timers, created, futureDecorationTypes, subscriptions, burst>>

\* midnight passes on the host clock
DayPasses ==
    /\ today < StartDay + MaxDays
    /\ today' = today + 1
    /\ last' = Step("day", "none", FALSE, FALSE, NoRun)
    /\ UNCHANGED <<probe, variant, tz, phase, text, windowEditor, activeEditor, timeout,
                   timers, created, futureDecorationTypes, subscriptions,
                   disposeCount, shown, burst>>

Next ==
    \/ Activate
    \/ \E e \in Editors \cup {NoEditor} : ChangeActiveEditor(e)
    \/ \E e \in Editors, t \in DocTexts : ChangeText(e, t)
    \/ \E id \in timers : TimerFires(id)
    \/ RefreshCommand
    \/ Deactivate
    \/ DisposeSubscriptions

Spec == Init /\ [][Next]_vars

\* One editor over any text of ScanTexts: activation, manual refreshes and
\* the passing of midnight
InitScan ==
    Loaded({[e \in Editors |-> IF e = "e1" THEN t ELSE << >>] : t \in ScanTexts},
           {"e1"})

NextScan ==
    \/ Activate
    \/ RefreshCommand
    \/ DayPasses

SpecScan == InitScan /\ [][NextScan]_vars

----------------------------------------------------------------------------
(* The scheduler *)

\* a step that asked for a run at once: first activation or a switch to an editor
ImmediateRequest == last.op \in {"activate", "editor"} /\ windowEditor # NoEditor

\* C1: debounce: after n >= 2 text changes, each made while the timer of the
\* one before was still pending, exactly one timer is pending and it is the
\* one the last change armed; no change ran the pipeline itself; when that
\* timer fires the pipeline is called once and nothing is left pending.
DebounceSingleRun ==
    /\ [](burst >= 2 => Cardinality(timers) = 1 /\ timers = {timeout})
    /\ [](last.armed => last.ran = "none")
    /\ [][burst >= 2 /\ last'.op = "timer"
            => last'.ran # "none" /\ timers' = {} /\ burst' = 0]_vars

DebounceWitness ==
    burst >= 2 /\ last.op = "text" /\ last.armed /\ last.cancelled

\* C2: an immediate request (first activation, editor switch) runs the
\* pipeline inside the call, cancels the armed timer and leaves no timer
\* armed; with no timer armed only a new request runs the pipeline.
ImmediateRunsAndIdles ==
    /\ [](ImmediateRequest
            => last.ran = "full" /\ timers = {} /\ timeout = 0 /\ burst = 0)
    /\ [][timers = {} /\ last'.ran # "none"
            => last'.op \in {"activate", "editor", "refresh"}]_vars

ImmediateWitness ==
    last.op = "editor" /\ last.cancelled /\ last.ran = "full" /\ timers = {}

\* C3: however a run is requested (text change, editor switch, first
\* activation, refresh command), once it has executed or been armed no timer
\* of an earlier request is pending.
NewRequestCancelsPending ==
    (last.op \in {"text", "editor", "activate", "refresh"}
        /\ (last.ran # "none" \/ last.armed))
    => timers = (IF last.armed THEN {timeout} ELSE {})

----------------------------------------------------------------------------
(* Teardown *)

\* C4: after deactivate() and the disposal of context.subscriptions every
\* handle created has had dispose() called exactly once and the registry is
\* empty.
TeardownReleasesOnce ==
    phase = "disposed"
    => /\ \A h \in 1 .. Len(created) : disposeCount[h] = 1
       /\ futureDecorationTypes = EmptyMap

\* C5: after deactivate() no updateDecorations call happens (a timer pending
\* at teardown never fires the pipeline), no handle is created and no
\* released handle is passed to setDecorations.
TeardownCancelsTimer ==
    phase \in {"deactivated", "disposed"}
    => /\ last.ran = "none"
       /\ ~last.run.stale
       /\ \A h \in 1 .. Len(created) : Disposed(disposeCount, h)

----------------------------------------------------------------------------
(* The style registry *)

\* C6: between activate and deactivate there is one handle per category: no
\* category has had two handles created for it, the registry holds every
\* future handle under its category, and a run that finds all its categories
\* in the registry creates nothing.
OneHandlePerCategory ==
    phase = "active"
    => /\ \A h1, h2 \in 1 .. Len(created) : created[h1] = created[h2] => h1 = h2
       /\ \A c \in DOMAIN futureDecorationTypes :
            created[futureDecorationTypes[c]] = c
       /\ RegistryHandles(futureDecorationTypes) = 2 .. Len(created)

\* a run that reused a future handle created by an earlier run
HandleReuseWitness ==
    /\ phase = "active"
    /\ last.ran = "full"
    /\ \E k \in 1 .. Len(last.run.calls) :
          /\ last.run.calls[k].ranges # << >>
          /\ last.run.calls[k].handle # pastDateDecorationType
          /\ last.run.calls[k].handle <= last.run.handlesBefore

----------------------------------------------------------------------------
(* One update cycle *)

\* the ranges a sequence holds
RangeSet(ranges) == {ranges[k] : k \in 1 .. Len(ranges)}

\* the handle a Range Group key is styled with
IsPastKey(key) == key # NaN /\ key <= 0

\* the ranges the Range Group assigns to the category of handle h
AssignedRanges(map, h) ==
    UNION {RangeSet(map[k].decorations) :
             k \in {j \in 1 .. Len(map) :
                      IF h = pastDateDecorationType THEN IsPastKey(map[j].key)
                      ELSE map[j].key = created[h]}}

\* every clear of a known handle comes before every apply
ClearsPrecedeApplies(run) ==
    \A i, j \in 1 .. Len(run.calls) :
        (run.calls[i].ranges # << >> /\ run.calls[j].ranges = << >>
            /\ run.calls[j].handle \in run.known) => j < i

\* C7: no stale highlighting: in a run every clear of a known handle precedes
\* every apply, and after the run each handle (the past handle and every
\* handle of the registry) shows on the active editor exactly the ranges the
\* new Range Group assigns to its category, none if it assigns none.
NoStaleHighlighting ==
    (phase = "active" /\ last.ran = "full")
    => /\ ClearsPrecedeApplies(last.run)
       /\ \A h \in {pastDateDecorationType}
                   \cup RegistryHandles(futureDecorationTypes) :
            RangeSet(ShownOf(shown[last.run.editor], h))
                = AssignedRanges(last.run.map, h)

\* C8: idempotence: a run right after a run on the same editor, with the
\* text and the reference date unchanged, computes the same Range Group,
\* leaves the same decorations and creates no handle.
Idempotent ==
    [][(phase' = "active" /\ last'.ran = "full" /\ last'.run.repeat
          /\ text' = text /\ today' = today)
        => /\ last'.run.map = last.run.map
           /\ shown' = shown
           /\ futureDecorationTypes' = futureDecorationTypes
           /\ created' = created]_vars

IdempotentWitness ==
    /\ phase = "active"
    /\ last.ran = "full"
    /\ last.run.repeat
    /\ Len(created) >= 2
    /\ \E k \in 1 .. Len(last.run.map) : last.run.map[k].key > 0

----------------------------------------------------------------------------
(* Extraction *)

\* the offsets of the tokens the pattern matches in t
MatchedTokens(v, t) == {i \in 0 .. Len(t) : MatchAt(v, t, i)}

\* the token at offset i is a real calendar date
RealDateAt(t, i) == IsCalendarDate(YearAt(t, i), MonthAt(t, i), DayAt(t, i))

\* range r covers the ten characters of the token at offset i
Covers(t, r, i) ==
    PosLeq(r.start, PositionAt(t, i)) /\ PosLeq(PositionAt(t, i + TokenLength), r.end)

\* every range of the Range Group
AllRanges(map) == UNION {RangeSet(map[k].decorations) : k \in 1 .. Len(map)}

\* C9: a matched token that is not a real calendar date is skipped: no range
\* covers it, no Range Group key and no new handle stems from it, and the real
\* dates of the text are still classified.
InvalidTokensSkipped ==
    last.ran = "full"
    => LET t == text[last.run.editor]
           good == {i \in MatchedTokens(variant, t) : RealDateAt(t, i)}
           bad == MatchedTokens(variant, t) \ good
           categories == {CategoryOf(variant, t, i, today, tz) : i \in good}
       IN  /\ \A i \in bad : \A r \in AllRanges(last.run.map) : ~Covers(t, r, i)
           /\ \A k \in 1 .. Len(last.run.map) : last.run.map[k].key \in categories
           /\ \A h \in (last.run.handlesBefore + 1) .. Len(created) :
                created[h] \in categories
           /\ \A i \in good : \E r \in AllRanges(last.run.map) : Covers(t, r, i)

\* the starts of the ranges of one category go left to right
LeftToRight(decorations) ==
    \A a, b \in 1 .. Len(decorations) :
        a < b => /\ PosLeq(decorations[a].start, decorations[b].start)
                 /\ decorations[a].start # decorations[b].start

\* the entry of the Range Group for the token at offset i holds range r
EmittedFor(map, t, i, r) ==
    \E k \in 1 .. Len(map) :
        /\ map[k].key = CategoryOf(variant, t, i, today, tz)
        /\ r \in RangeSet(map[k].decorations)

\* C10 as stated: the range of every matched real date starts at its first
\* character and ends right after its tenth, and the ranges of a category go
\* left to right.
ExactTokenRanges ==
    last.ran = "full"
    => LET t == text[last.run.editor] IN
       /\ \A i \in MatchedTokens(variant, t) :
            RealDateAt(t, i)
            => EmittedFor(last.run.map, t, i,
                          Range(PositionAt(t, i), PositionAt(t, i + TokenLength)))
       /\ \A k \in 1 .. Len(last.run.map) : LeftToRight(last.run.map[k].decorations)

\* C10 amended: with the word-boundary pattern the range of a matched real
\* date is exactly its ten characters; with the whitespace pattern it also
\* takes the character before and the character after the token where the
\* text has one; the ranges of a category go left to right, one per token.
TokenRanges ==
    last.ran = "full"
    => LET t == text[last.run.editor]
           good == {i \in MatchedTokens(variant, t) : RealDateAt(t, i)}
       IN
       /\ \A i \in good :
            EmittedFor(last.run.map, t, i,
                IF variant = "linear"
                THEN Range(PositionAt(t, i), PositionAt(t, i + TokenLength))
                ELSE Range(PositionAt(t, Max(i - 1, 0)),
                           PositionAt(t, Min(i + TokenLength + 1, Len(t)))))
       /\ \A k \in 1 .. Len(last.run.map) : LeftToRight(last.run.map[k].decorations)
       /\ Cardinality(AllRanges(last.run.map))
            = Cardinality(IF variant = "linear" THEN MatchedTokens(variant, t)
                          ELSE good)

\* a whitespace-pattern run over a token at offset 0 followed by a second
\* token of the same category
TokenRangesWitness ==
    /\ last.ran = "full"
    /\ variant = "fibonacci"
    /\ MatchAt(variant, text[last.run.editor], 0)
    /\ \E k \in 1 .. Len(last.run.map) : Len(last.run.map[k].decorations) >= 2

----------------------------------------------------------------------------
(* Documents with dates far ahead *)

\* distinct far dates over all the generated documents, and per document
MaxFarDates == 51
MaxSlice == 17

\* the k-th day from 2024-07-01 on, as a token (July and August 2024)
FarToken(k) == IF k <= 31 THEN Token(2024, 7, k) ELSE Token(2024, 8, k - 31)

\* the dates from the a-th to the b-th, one per line
RECURSIVE FarText(_, _)
FarText(a, b) ==
    IF a > b THEN << >>
    ELSE IF a = b THEN FarToken(b)
    ELSE FarText(a, b - 1) \o <<"\n">> \o FarToken(b)

\* the far dates cut into documents of MaxSlice dates
FarSlices ==
    {FarText(a, Min(a + MaxSlice - 1, MaxFarDates)) :
        a \in {j \in 1 .. MaxFarDates : (j - 1) % MaxSlice = 0}}

\* two past dates, today, a near date and dates 50, 51 and 57 days ahead
MixedText ==
    Token(2024, 6, 10) \o <<" ">> \o Token(2024, 6, 12) \o <<" ">>
      \o Token(2024, 6, 14) \o <<" ">> \o Token(2024, 6, 20) \o <<"\n">>
      \o Token(2024, 8, 3) \o <<" ">> \o Token(2024, 8, 4) \o <<" ">>
      \o Token(2024, 8, 10)

FarTexts == {MixedText} \cup FarSlices

\* One editor over the documents of FarTexts: activation, edits that replace
\* the text, the debounce timer and manual refreshes
InitFar ==
    Loaded({[e \in Editors |-> IF e = "e1" THEN t ELSE << >>] : t \in FarTexts},
           {"e1"})

NextFar ==
    \/ Activate
    \/ \E t \in FarTexts : ChangeText("e1", t)
    \/ \E id \in timers : TimerFires(id)
    \/ RefreshCommand

SpecFar == InitFar /\ [][NextFar]_vars

----------------------------------------------------------------------------
(* Bucketing *)

\* calculateColor's `diffDays >= 50`: the cap of the linear policy
LinearCap == 50

\* the entries of the Range Group with a key up to, or from, a bound
EntriesAtMost(map, bound) == {k \in 1 .. Len(map) : map[k].key <= bound}
EntriesAtLeast(map, bound) == {k \in 1 .. Len(map) : map[k].key >= bound}

\* C11: linear bucketing: in the calendar-day variant every date is grouped
\* under its distance when 1 <= distance <= 50, under 50 when the distance is
\* above 50 and under 0 when it is <= 0, and a future date is styled with the
\* handle created for that category; so the Range Group has at most one entry
\* for the past and today and at most one for the far future.
LinearBucketing ==
    (variant = "linear" /\ last.ran = "full")
    => LET t == text[last.run.editor]
           map == last.run.map
       IN  /\ \A i \in MatchedTokens(variant, t) :
                LET distance == LinearDiffDays(t, i, today, tz)
                    category == IF distance <= 0 THEN 0
                                ELSE IF distance > LinearCap THEN LinearCap
                                ELSE distance
                IN
                /\ \E k \in 1 .. Len(map) :
                     /\ map[k].key = category
                     /\ MatchRange(variant, t, i) \in RangeSet(map[k].decorations)
                /\ category > 0
                   => \E h \in RegistryHandles(futureDecorationTypes) :
                        /\ created[h] = category
                        /\ MatchRange(variant, t, i)
                             \in RangeSet(ShownOf(shown[last.run.editor], h))
           /\ Cardinality(EntriesAtMost(map, 0)) <= 1
           /\ Cardinality(EntriesAtLeast(map, LinearCap)) <= 1

----------------------------------------------------------------------------
(* Colors *)

\* Math.round(n / d) for d > 0: the nearest integer, a half rounds up
RoundDiv(n, d) == (2 * n + d) \div (2 * d)

Rgb(r, g, b) == [space |-> "rgb", r |-> r, g |-> g, b |-> b]
Hsl(h) == [space |-> "hsl", h |-> h, s |-> 100, l |-> 50]

\* linear variant: calculateColor(diffDays)
ColorStep == 3 * 255
LinearColor(diffDays) ==
    IF diffDays <= 0 THEN Rgb(255, 0, 0)
    ELSE IF diffDays >= LinearCap THEN Rgb(0, 0, 255)
    ELSE LET redValue == Max(0, 255 * LinearCap - diffDays * ColorStep)
             blueValue == Min(255 * LinearCap, diffDays * ColorStep)
         IN  Rgb(RoundDiv(redValue, LinearCap), 0, RoundDiv(blueValue, LinearCap))

\* fibonacci variant: MAX_HUE, RED_HUE, BLUE_HUE
MAX_HUE == 210
RED_HUE == Hsl(0)
BLUE_HUE == Hsl(MAX_HUE)

\* FIBONACCI_BOUNDARIES.indexOf(category) + 1: 0 when it is no boundary
IndexOfPlusOne(category) ==
    IF \E k \in 1 .. Len(FIBONACCI_BOUNDARIES) : FIBONACCI_BOUNDARIES[k] = category
    THEN CHOOSE k \in 1 .. Len(FIBONACCI_BOUNDARIES) :
            FIBONACCI_BOUNDARIES[k] = category
    ELSE 0

\* fibonacci variant: calculateColor(fibonacciCategory)
FibonacciColor(fibonacciCategory) ==
    IF fibonacciCategory <= 0 THEN RED_HUE
    ELSE IF fibonacciCategory >= FIBONACCI_BOUNDARIES[Len(FIBONACCI_BOUNDARIES)]
    THEN BLUE_HUE
    ELSE LET index == IndexOfPlusOne(fibonacciCategory)
             maxIndex == Len(FIBONACCI_BOUNDARIES)
         IN  Hsl(RoundDiv(index * MAX_HUE, maxIndex))

calculateColor(v, category) ==
    IF v = "linear" THEN LinearColor(category) ELSE FibonacciColor(category)

----------------------------------------------------------------------------
(* The pure functions, called on their own *)

\* the largest distance given to getFibonacciCategory
MaxDistance == 92
\* days after StartDay that the dates and reference dates range over
MaxSpan == 9

Distances == -3 .. MaxDistance
Days == StartDay .. (StartDay + MaxSpan)

\* the categories calculateColor is called with
ColorCategories(v) ==
    IF v = "linear" THEN -2 .. (LinearCap + 2)
    ELSE {-1, 0} \cup {FIBONACCI_BOUNDARIES[k] : k \in 1 .. Len(FIBONACCI_BOUNDARIES)}

\* June 2024 day as a token
JuneToken(day) == Token(2024, 6, day - DaysFromCivil(2024, 6, 1) + 1)

Probe(fn, args, result) == [fn |-> fn, args |-> args, result |-> result]

\* a pure call leaves the extension as it is
Frame ==
    UNCHANGED <<variant, tz, today, phase, text, windowEditor, activeEditor,
                timeout, timers, created, futureDecorationTypes, subscriptions,
                disposeCount, shown, last, burst>>

\* getFibonacciCategory(d) and getFibonacciCategory(d + 1); each behaviour
\* makes one pure call
ApplyGetFibonacciCategory(d) ==
    /\ probe = NoProbe
    /\ probe' = Probe("getFibonacciCategory", <<d, d + 1>>,
                      <<getFibonacciCategory(d), getFibonacciCategory(d + 1)>>)
    /\ Frame

\* calculateBusinessDays(start, end), called with start <= end as
\* updateDecorations does
ApplyCalculateBusinessDays(start, end) ==
    /\ probe = NoProbe
    /\ start <= end
    /\ probe' = Probe("calculateBusinessDays", <<start, end>>,
                      <<calculateBusinessDays(start, end)>>)
    /\ Frame

\* the signed distance updateDecorations computes for the token of `date` when
\* the host clock shows `day`, and the category it files the token under
ApplySignedDiffDays(date, day) ==
    /\ probe = NoProbe
    /\ probe' = Probe("signedDiffDays", <<date, day>>,
                      <<SignedDiffDays(JuneToken(date), 0, day, tz),
                        CategoryOf("fibonacci", JuneToken(date), 0, day, tz)>>)
    /\ Frame

\* calculateColor(c1) and calculateColor(c2)
ApplyCalculateColor(c1, c2) ==
    /\ probe = NoProbe
    /\ probe' = Probe("calculateColor", <<c1, c2>>,
                      <<calculateColor(variant, c1), calculateColor(variant, c2)>>)
    /\ Frame

InitPure == Loaded({[e \in Editors |-> << >>]}, {NoEditor})

NextPure ==
    \/ \E d \in Distances : ApplyGetFibonacciCategory(d)
    \/ \E start, end \in Days : ApplyCalculateBusinessDays(start, end)
    \/ \E date, day \in Days : ApplySignedDiffDays(date, day)
    \/ \E c1, c2 \in ColorCategories(variant) : ApplyCalculateColor(c1, c2)

SpecPure == InitPure /\ [][NextPure]_vars

\* C12: boundary bucketing: getFibonacciCategory(d) is 0 when d <= 0, 89 when
\* d > 89 and otherwise the largest of 1, 2, 3, 5, 8, 13, 21, 34, 55, 89 that
\* is <= d; it is always one of 0, 1, 2, 3, 5, 8, 13, 21, 34, 55, 89 and it
\* never decreases when d grows (from each d to d + 1).
BoundaryBucketing ==
    probe.fn = "getFibonacciCategory"
    => LET boundaries == {1, 2, 3, 5, 8, 13, 21, 34, 55, 89} IN
       /\ \A k \in 1 .. 2 :
            LET d == probe.args[k]
                c == probe.result[k]
            IN  /\ d <= 0 => c = 0
                /\ d > 89 => c = 89
                /\ (d > 0 /\ d <= 89)
                   => /\ c \in boundaries
                      /\ c <= d
                      /\ \A b \in boundaries : b <= d => b <= c
                /\ c \in boundaries \cup {0}
       /\ probe.args[2] = probe.args[1] + 1
       /\ probe.result[1] <= probe.result[2]

\* a distance just below a boundary and that boundary
BoundaryBucketingWitness ==
    /\ probe.fn = "getFibonacciCategory"
    /\ probe.args = <<12, 13>>
    /\ probe.result = <<8, 13>>

\* C13: the business-day distance excludes the start day: for two distinct
\* dates calculateBusinessDays gives the number of non-weekend days of the
\* closed interval without the earlier day; from a Friday to the following
\* Monday it gives 1.
BusinessDaysExcludeStart ==
    (probe.fn = "calculateBusinessDays" /\ probe.args[1] # probe.args[2])
    => LET start == probe.args[1]
           end == probe.args[2]
       IN  /\ probe.result[1]
                = Cardinality({day \in (start + 1) .. end : ~isWeekend(day)})
           /\ (DayOfWeek(start) = 5 /\ end = start + 3) => probe.result[1] = 1

\* C14: the sign of the business-day distance: for a date written in the text
\* and a reference date, signedDiffDays is negative when the date precedes
\* today, positive when it follows, and zero only when they are the same day;
\* so a date after today is never filed under category 0.
SignOfDistance ==
    probe.fn = "signedDiffDays"
    => LET date == probe.args[1]
           day == probe.args[2]
           signedDiffDays == probe.result[1]
           fibonacciCategory == probe.result[2]
       IN  /\ date < day => signedDiffDays < 0
           /\ date > day => signedDiffDays > 0
           /\ signedDiffDays = 0 => date = day
           /\ date > day => fibonacciCategory # 0

\* C15: color derivation is monotonic and distinguishing: a category <= 0
\* gets the red endpoint, the cap (50) or the last boundary (89) the blue
\* endpoint, and of two categories c1 < c2 between 1 and the cap the second is
\* strictly further from red to blue (linear: less red and more blue;
\* boundaries: a higher hue), so two distinct categories never share a color.
ColorMonotonic ==
    probe.fn = "calculateColor"
    => LET c1 == probe.args[1]
           c2 == probe.args[2]
           color1 == probe.result[1]
           color2 == probe.result[2]
           top == IF variant = "linear" THEN 50 ELSE 89
           red == IF variant = "linear" THEN Rgb(255, 0, 0) ELSE Hsl(0)
           blue == IF variant = "linear" THEN Rgb(0, 0, 255) ELSE Hsl(210)
       IN  /\ c1 <= 0 => color1 = red
           /\ c1 = top => color1 = blue
           /\ (1 <= c1 /\ c1 < c2 /\ c2 <= top)
              => /\ variant = "linear" => (color2.r < color1.r /\ color2.b > color1.b)
                 /\ variant = "fibonacci" => color2.h > color1.h
                 /\ color1 # color2

----------------------------------------------------------------------------
(* The size of the registry *)

\* C16: bounded style registry: however many update cycles run and whatever
\* the texts, the handles ever allocated are at most the past handle and one
\* per category of the policy: 10 future handles with the boundaries, 50 with
\* the linear policy.
BoundedRegistry ==
    Len(created) <= 1 + (IF variant = "linear" THEN 50 ELSE 10)

----------------------------------------------------------------------------
(* Progress of the scheduler *)

\* The lifecycle over documents that hold no date (the scheduler never looks
\* at the text). The host's event loop runs the callback of every pending
\* timer: a timer that stays pending fires.
LiveTexts == {<< >>, <<"x">>, <<"1", "7">>}

InitLive == Loaded([Editors -> LiveTexts], Editors \cup {NoEditor})

NextLive ==
    \/ Activate
    \/ \E e \in Editors \cup {NoEditor} : ChangeActiveEditor(e)
    \/ \E e \in Editors, t \in LiveTexts : ChangeText(e, t)
    \/ \E id \in timers : TimerFires(id)
    \/ RefreshCommand
    \/ Deactivate
    \/ DisposeSubscriptions

SpecLive ==
    InitLive /\ [][NextLive]_vars /\ WF_vars(\E id \in timers : TimerFires(id))

\* C17: a pending debounced update leads to a run: while the extension is
\* active, a pending timer eventually fires or is cancelled by a newer
\* request, unless teardown comes first; when it fires updateDecorations runs
\* once in that step (the whole pipeline if an editor is active), no timer is
\* left armed, and with none armed no timer-driven run follows.
PendingLeadsToRun ==
    /\ (phase = "active" /\ timers # {}) ~> (timers = {} \/ phase # "active")
    /\ [][last'.op = "timer"
            => /\ timers # {}
               /\ timers' = {}
               /\ last'.ran # "none"
               /\ activeEditor # NoEditor => last'.ran = "full"
               /\ ~last'.armed]_vars
    /\ [][(timers = {} /\ timers' = {}) => last'.op # "timer"]_vars

\* the timer armed by a text change has fired and run the pipeline
PendingLeadsToRunWitness ==
    /\ phase = "active"
    /\ last.op = "timer"
    /\ last.ran = "full"
    /\ timers = {}
    /\ timeout # 0

----------------------------------------------------------------------------
(* No active document *)

\* C18: no active document is a no-op: an updateDecorations that runs with
\* no active editor calls setDecorations on no handle, creates no handle and
\* leaves futureDecorationTypes, what the editors show and `timeout` as they
\* were (it arms no timer); and a change of the active editor to none runs no
\* pipeline.
NoEditorNoOp ==
    /\ [][last'.ran = "noop"
            => /\ activeEditor' = NoEditor
               /\ last'.run.calls = << >>
               /\ created' = created
               /\ disposeCount' = disposeCount
               /\ futureDecorationTypes' = futureDecorationTypes
               /\ subscriptions' = subscriptions
               /\ shown' = shown
               /\ timeout' = timeout
               /\ timers' \subseteq timers
               /\ ~last'.armed]_vars
    /\ [][(last'.ran # "none" /\ last'.op # "deactivate")
            => (activeEditor' = NoEditor <=> last'.ran = "noop")]_vars
    /\ [][(last'.op = "editor" /\ windowEditor' = NoEditor)
            => /\ last'.ran = "none"
               /\ activeEditor' = NoEditor
               /\ UNCHANGED <<created, disposeCount, futureDecorationTypes,
                              subscriptions, shown, timeout, timers>>]_vars

\* the timer armed by a text change fired after the editor was closed
NoEditorNoOpWitness ==
    /\ last.op = "timer"
    /\ last.ran = "noop"
    /\ activeEditor = NoEditor
    /\ Len(created) >= 2

\* every range editor e renders, whatever the handle
ShownRanges(e) == UNION {RangeSet(shown[e][h]) : h \in DOMAIN shown[e]}

\* C19: every classified date is highlighted: when a run completes, the
\* ranges the active editor renders, over all style handles, are exactly the
\* ranges of all the dates the run classified; several past dates at
\* different distances are all shown.
EveryClassifiedDateHighlighted ==
    (phase = "active" /\ last.ran = "full")
    => ShownRanges(last.run.editor) = AllRanges(last.run.map)

====
